---- MODULE Spec2Model ----
(***************************************************************************)
(* Model of db_vs.py: QuantumDatabaseDemo, the two Grover circuit builders *)
(* (create_standard_grover, create_vermicular), the oracle they share, the *)
(* three-stage search pass (run_multi_stage_search) and the comparison     *)
(* that run_complete_demo makes of the two passes.                         *)
(*                                                                         *)
(* A circuit is the sequence of instructions the builder appended.  An     *)
(* instruction is <<"h", q>>, <<"x", q>> or <<"cz", q, r>>.  A target      *)
(* pattern is the sequence of the characters of the Python string.         *)
(* A float is kept as an exact fraction <<"num", n, d>> with d > 0, so     *)
(* that a division is a division and not the identity.                     *)
(***************************************************************************)
EXTENDS Integers, Sequences, FiniteSets, TLC

VARIABLES
    platform,          \* self.platform
    shots_per_test,    \* self.shots_per_test
    targets,           \* self.targets: sequence of <<name, pattern>>
    results,           \* self.results: [standard, vermicular] -> [stages, total]
    pc,                \* position of run_complete_demo
    algorithm_type,    \* argument of the running run_multi_stage_search
    stage,             \* loop index of the running pass (0-based)
    stage_results,     \* local list of the running pass
    cumulative_depth,  \* local counter of the running pass
    circuit,           \* the circuit built last
    returned,          \* value returned by the last completed pass
    submissions,       \* log of the device.run calls made so far
    inflight,          \* number of device.run calls that have not returned
    advantage,         \* per-stage ratios of display_final_comparison
    improvement,       \* total ratio of display_final_comparison
    std_cumulative,    \* create_comparison_plot
    ver_cumulative,    \* create_comparison_plot
    improvement_factor,\* save_results
    target,            \* pattern handed to a builder called on its own
    iterations,        \* iteration count handed to a builder called on its own
    amp0,              \* amplitudes before the instructions are applied
    amp,               \* amplitudes after the instructions emitted so far
    calls              \* what was called on the circuit so far

vars == <<platform, shots_per_test, targets, results, pc, algorithm_type,
          stage, stage_results, cumulative_depth, circuit, returned,
          submissions, inflight, advantage, improvement, std_cumulative,
          ver_cumulative, improvement_factor, target, iterations, amp0, amp,
          calls>>

demoVars == <<platform, shots_per_test, targets, results, pc, algorithm_type,
              stage, stage_results, cumulative_depth, returned, submissions,
              inflight, advantage, improvement, std_cumulative,
              ver_cumulative, improvement_factor>>

(***************************************************************************)
(* Bounds                                                                  *)
(***************************************************************************)
\* shots of the simulator platform (1000 in setup_device), scaled down
SimShots == 3
\* shots of the hardware platforms (200 in setup_device), scaled down
QpuShots == 2
\* largest iteration count handed to a builder called on its own
MaxIter == 3
\* amplitudes of the starting vector range over -MaxAmp..MaxAmp
MaxAmp == 1

(***************************************************************************)
(* Instructions and circuits                                               *)
(***************************************************************************)
H(q) == <<"h", q>>
X(q) == <<"x", q>>
CZ(q, r) == <<"cz", q, r>>

\* for i, bit in enumerate(target): if bit == '0': circuit.x(i)
RECURSIVE OracleFlips(_, _)
OracleFlips(t, i) ==
    IF i >= Len(t) THEN <<>>
    ELSE (IF t[i + 1] = "0" THEN <<X(i)>> ELSE <<>>) \o OracleFlips(t, i + 1)

RECURSIVE OracleFlipsOnOnes(_, _)
OracleFlipsOnOnes(t, i) ==
    IF i >= Len(t) THEN <<>>
    ELSE (IF t[i + 1] = "1" THEN <<X(i)>> ELSE <<>>) \o OracleFlipsOnOnes(t, i + 1)

\* mutant: the X gates go to the units whose bit is '1'
apply_oracle_ones(c, t) ==
    c \o OracleFlipsOnOnes(t, 0) \o <<CZ(0, 1)>> \o OracleFlipsOnOnes(t, 0)

\* mutant: the X gates are not undone after the CZ
apply_oracle_noundo(c, t) ==
    c \o OracleFlips(t, 0) \o <<CZ(0, 1)>>

_apply_oracle(c, t) ==
    c \o OracleFlips(t, 0) \o <<CZ(0, 1)>> \o OracleFlips(t, 0)

\* the nine instructions of the diffusion operator
Diffusion ==
    <<H(0), H(1), X(0), X(1), CZ(0, 1), X(0), X(1), H(0), H(1)>>

\* the four instructions of a DD sequence
DD == <<X(0), X(0), X(1), X(1)>>

RECURSIVE StandardLoop(_, _, _, _)
StandardLoop(c, t, n, i) ==
    IF i >= n THEN c
    ELSE StandardLoop(_apply_oracle(c, t) \o Diffusion, t, n, i + 1)

create_standard_grover(t, n) ==
    StandardLoop(<<H(0), H(1)>>, t, n, 0)

RECURSIVE VermicularLoop(_, _, _, _)
VermicularLoop(c, t, n, i) ==
    IF i >= n THEN c
    ELSE VermicularLoop(
             _apply_oracle(c, t) \o Diffusion
                 \o (IF n > 1 /\ i < n - 1 THEN DD ELSE <<>>),
             t, n, i + 1)

\* mutant: the DD sequence after the last diffusion is left out
create_vermicular_nopost(t, n) ==
    VermicularLoop(<<H(0), H(1)>> \o DD, t, n, 0)

\* mutant: the DD sequence after the last diffusion stops after x(1)
create_vermicular_shortpost(t, n) ==
    VermicularLoop(<<H(0), H(1)>> \o DD, t, n, 0) \o <<X(0), X(0), X(1)>>

create_vermicular(t, n) ==
    VermicularLoop(<<H(0), H(1)>> \o DD, t, n, 0) \o DD

(***************************************************************************)
(* What the instructions do to the four amplitudes.  Basis state k has the *)
(* bit of unit 0 as its high bit, as the measured string has it first.     *)
(* H is kept unnormalised (a common factor does not change a sign, an      *)
(* equality of vectors or a ratio of squares).                             *)
(***************************************************************************)
Basis == 0..3

BitOf(k, q) == IF q = 0 THEN k \div 2 ELSE k % 2

FlipOf(k, q) ==
    IF q = 0 THEN (k + 2) % 4
    ELSE IF k % 2 = 0 THEN k + 1 ELSE k - 1

\* amplitude of basis state k in the vector a
At(a, k) == a[k + 1]

GateX(a, q) == <<At(a, FlipOf(0, q)), At(a, FlipOf(1, q)),
                 At(a, FlipOf(2, q)), At(a, FlipOf(3, q))>>

GateCZ(a) == <<At(a, 0), At(a, 1), At(a, 2), 0 - At(a, 3)>>

HAt(a, q, k) ==
    IF BitOf(k, q) = 0 THEN At(a, k) + At(a, FlipOf(k, q))
    ELSE At(a, FlipOf(k, q)) - At(a, k)

GateH(a, q) == <<HAt(a, q, 0), HAt(a, q, 1), HAt(a, q, 2), HAt(a, q, 3)>>

ApplyGate(a, op) ==
    IF op[1] = "x" THEN GateX(a, op[2])
    ELSE IF op[1] = "cz" THEN GateCZ(a)
    ELSE GateH(a, op[2])

RECURSIVE RunFrom(_, _, _)
RunFrom(a, c, i) ==
    IF i > Len(c) \/ Len(a) # 4 THEN a
    ELSE RunFrom(ApplyGate(a, c[i]), c, i + 1)

RunCircuit(a, c) == RunFrom(a, c, 1)

\* index of the basis state whose unit-0/unit-1 bits spell a 2-bit pattern
IndexOf(t) ==
    (IF t[1] = "1" THEN 2 ELSE 0) + (IF t[2] = "1" THEN 1 ELSE 0)

Patterns == {<<"0", "0">>, <<"0", "1">>, <<"1", "0">>, <<"1", "1">>}

(***************************************************************************)
(* The oracle and the two builders called on their own, for any 2-bit      *)
(* pattern, any iteration count up to MaxIter and any starting amplitudes. *)
(***************************************************************************)
AmpVals == (0 - MaxAmp)..MaxAmp

NoTotal == <<"num", 0, 1>>

InitResults ==
    [a \in {"standard", "vermicular"} |-> [stages |-> <<>>, total |-> NoTotal]]

DemoIdle ==
    /\ platform = "simulator"
    /\ shots_per_test = SimShots
    /\ targets = <<>>
    /\ results = InitResults
    /\ pc = "idle"
    /\ algorithm_type = "none"
    /\ stage = 0
    /\ stage_results = <<>>
    /\ cumulative_depth = 0
    /\ returned = <<>>
    /\ submissions = <<>>
    /\ inflight = 0
    /\ advantage = <<>>
    /\ improvement = <<"unset", 0, 0>>
    /\ std_cumulative = <<>>
    /\ ver_cumulative = <<>>
    /\ improvement_factor = <<"unset", 0, 0>>

InitPure ==
    /\ DemoIdle
    /\ target \in Patterns
    /\ iterations \in 1..MaxIter
    /\ amp0 \in AmpVals \X AmpVals \X AmpVals \X AmpVals
    /\ amp = amp0
    /\ circuit = <<>>
    /\ calls = <<>>

\* self._apply_oracle(circuit, target), at most twice in succession
ApplyOracle ==
    /\ pc = "idle"
    /\ calls \in {<<>>, <<"oracle">>}
    /\ circuit' = _apply_oracle(circuit, target)
    /\ amp' = RunCircuit(amp, SubSeq(circuit', Len(circuit) + 1, Len(circuit')))
    /\ calls' = Append(calls, "oracle")
    /\ UNCHANGED <<target, iterations, amp0>>
    /\ UNCHANGED demoVars

\* self.create_standard_grover(target, iterations)
CreateStandardGrover ==
    /\ pc = "idle"
    /\ calls = <<>>
    /\ circuit' = create_standard_grover(target, iterations)
    /\ amp' = RunCircuit(amp0, circuit')
    /\ calls' = <<"standard">>
    /\ UNCHANGED <<target, iterations, amp0>>
    /\ UNCHANGED demoVars

\* self.create_vermicular(target, iterations)
CreateVermicular ==
    /\ pc = "idle"
    /\ calls = <<>>
    /\ circuit' = create_vermicular(target, iterations)
    /\ amp' = RunCircuit(amp0, circuit')
    /\ calls' = <<"vermicular">>
    /\ UNCHANGED <<target, iterations, amp0>>
    /\ UNCHANGED demoVars

NextPure ==
    \/ ApplyOracle
    \/ CreateStandardGrover
    \/ CreateVermicular

SpecPure == InitPure /\ [][NextPure]_vars

(***************************************************************************)
(* Properties of the oracle and the builders                               *)
(***************************************************************************)

\* C1: after one application of the oracle's instructions, the amplitude of
\* the basis state whose unit-0/unit-1 bits spell the target has changed
\* sign and the three other amplitudes are what they were.
OracleMarksTarget ==
    calls = <<"oracle">> =>
        \A k \in Basis :
            At(amp, k) = IF k = IndexOf(target) THEN 0 - At(amp0, k)
                         ELSE At(amp0, k)

OracleMarksTargetWitness ==
    /\ calls = <<"oracle">>
    /\ target = <<"1", "0">>
    /\ amp0 = <<1, 1, 1, 1>>
    /\ amp = <<1, 1, 0 - 1, 1>>

\* C9: two applications of the oracle in succession leave every amplitude
\* as it was before the first, and the second call emits the instructions
\* the first call emitted.
OracleSelfInverse ==
    calls = <<"oracle", "oracle">> =>
        /\ amp = amp0
        /\ Len(circuit) % 2 = 0
        /\ SubSeq(circuit, 1, Len(circuit) \div 2)
             = SubSeq(circuit, Len(circuit) \div 2 + 1, Len(circuit))

OracleSelfInverseWitness ==
    /\ calls = <<"oracle", "oracle">>
    /\ target = <<"0", "0">>
    /\ At(amp0, 0) = 1
    /\ Len(circuit) = 10
    /\ RunCircuit(amp0, SubSeq(circuit, 1, 5)) # amp0
    /\ amp = amp0

\* length of one oracle+diffusion block of the Baseline circuit
BlockLen(c0, n) == (Len(c0) - 2) \div n

\* first position of block k (0-based) in the Augmented circuit
BlockStart(c0, n, k) == 7 + k * (BlockLen(c0, n) + 4)

\* the positions where the Augmented circuit is to hold a DD sequence
PulsePlaces(c0, n) ==
    {3} \cup {BlockStart(c0, n, k) + BlockLen(c0, n) : k \in 0..(n - 1)}

\* C3: the Augmented circuit is h(0) h(1), a DD sequence, then n blocks
\* equal to the blocks of the Baseline circuit, each but the last followed
\* by one DD sequence, then one DD sequence; the DD sequence occurs at these
\* n + 1 places of the circuit and at no other.
PulsesAtSpecifiedPlaces ==
    calls = <<"vermicular">> =>
        LET c0 == create_standard_grover(target, iterations)
            n == iterations
            L == BlockLen(c0, n)
        IN  /\ Len(circuit) = 2 + 4 + n * L + (n - 1) * 4 + 4
            /\ SubSeq(circuit, 1, 2) = <<H(0), H(1)>>
            /\ \A k \in 0..(n - 1) :
                   SubSeq(circuit, BlockStart(c0, n, k), BlockStart(c0, n, k) + L - 1)
                     = SubSeq(c0, 3 + k * L, 2 + (k + 1) * L)
            /\ {i \in 1..(Len(circuit) - 3) : SubSeq(circuit, i, i + 3) = DD}
                 = PulsePlaces(c0, n)
            /\ Cardinality(PulsePlaces(c0, n)) = n + 1

PulsesAtSpecifiedPlacesWitness ==
    /\ calls = <<"vermicular">>
    /\ iterations = 3
    /\ target = <<"1", "0">>
    /\ Len(circuit) = 54
    /\ SubSeq(circuit, 19, 22) = DD
    /\ SubSeq(circuit, 51, 54) = DD

\* every DD sequence deleted, scanning the circuit from its first instruction
RECURSIVE StripDD(_, _)
StripDD(c, i) ==
    IF i > Len(c) THEN <<>>
    ELSE IF i + 3 <= Len(c) /\ SubSeq(c, i, i + 3) = DD THEN StripDD(c, i + 4)
    ELSE <<c[i]>> \o StripDD(c, i + 1)

\* C8: the Augmented circuit with its DD sequences deleted is the Baseline
\* circuit for the same target and iteration count, instruction for
\* instruction, and both circuits take any starting amplitudes to the same
\* amplitudes (hence to the same outcome distribution).
StrippedEqualsBaseline ==
    calls = <<"vermicular">> =>
        /\ StripDD(circuit, 1) = create_standard_grover(target, iterations)
        /\ amp = RunCircuit(amp0, create_standard_grover(target, iterations))

StrippedEqualsBaselineWitness ==
    /\ calls = <<"vermicular">>
    /\ iterations = 2
    /\ target = <<"0", "1">>
    /\ Len(circuit) > Len(StripDD(circuit, 1))
    /\ Len(StripDD(circuit, 1)) = 26
    /\ amp0 = <<1, 0, 0, 0>>
    /\ amp # amp0

(***************************************************************************)
(* Floats as exact fractions <<"num", n, d>>, d > 0                        *)
(***************************************************************************)
Num(n, d) == <<"num", n, d>>
One == Num(1, 1)
Inf == <<"inf", 0, 0>>
None == <<"None", 0, 0>>
ZeroDivisionError == <<"ZeroDivisionError", 0, 0>>

FMul(a, b) == Num(a[2] * b[2], a[3] * b[3])
FGt0(a) == a[2] > 0
FEq(a, b) == a[1] = "num" /\ b[1] = "num" /\ a[2] * b[3] = b[2] * a[3]
FLeq(a, b) == a[2] * b[3] <= b[2] * a[3]

\* a / b
FDiv(a, b) ==
    IF b[2] = 0 THEN ZeroDivisionError ELSE Num(a[2] * b[3], a[3] * b[2])

(***************************************************************************)
(* The execution backend (device.run) and measure_success_rate             *)
(***************************************************************************)
SumSq(a) == a[1] * a[1] + a[2] * a[2] + a[3] * a[3] + a[4] * a[4]

\* the measured string has one character per unit of the circuit (two), so
\* it can equal the target only when the target has two characters
Matchable(t) == t \in Patterns

\* number of shots whose measured string equals the target.  The simulator
\* samples the exact distribution of the circuit run on |00>: an outcome of
\* probability 0 is never drawn and one of probability 1 always is.  The
\* hardware backends may return any outcome at any shot.
SuccessCounts(p, c, t, shots) ==
    IF ~Matchable(t) THEN {0}
    ELSE IF p = "simulator" THEN
        LET a == RunCircuit(<<1, 0, 0, 0>>, c)
            hit == At(a, IndexOf(t)) * At(a, IndexOf(t))
        IN  {k \in 0..shots : (hit = 0 => k = 0) /\ (hit = SumSq(a) => k = shots)}
    ELSE 0..shots

(***************************************************************************)
(* run_multi_stage_search                                                  *)
(***************************************************************************)
Catalog ==
    << <<"Alpha", <<"0", "0">> >>,
       <<"Beta", <<"1", "1">> >>,
       <<"Gamma", <<"1", "0">> >> >>

\* mutant: the Baseline pass never raises its iteration count
IterationCountAlwaysOne(alg, depth) == 1

\* the iteration count handed to the builder
IterationCount(alg, depth) ==
    IF alg = "standard" THEN (IF depth < 2 THEN 1 ELSE 2) ELSE 1

BuildCircuit(alg, t, depth) ==
    IF alg = "standard" THEN create_standard_grover(t, IterationCount(alg, depth))
    ELSE create_vermicular(t, IterationCount(alg, depth))

RECURSIVE NpProdFrom(_, _)
NpProdFrom(s, i) ==
    IF i > Len(s) THEN One ELSE FMul(s[i], NpProdFrom(s, i + 1))

\* mutant: the last stage is left out of the product
NpProdStale(s) ==
    IF s = <<>> THEN One ELSE NpProdFrom(SubSeq(s, 1, Len(s) - 1), 1)

\* np.prod(stage_results)
NpProd(s) == NpProdFrom(s, 1)

EnterPass(alg) ==
    /\ algorithm_type' = alg
    /\ stage_results' = <<>>
    /\ cumulative_depth' = 0
    /\ stage' = 0
    /\ pc' = "loop"

pureVars == <<amp0, amp, calls>>

\* run_complete_demo up to the first pass: the cost confirmation, then the
\* entry of run_multi_stage_search('standard')
RunCompleteDemo(confirm) ==
    /\ pc = "start"
    /\ IF platform # "simulator" /\ confirm # "yes"
       THEN /\ pc' = "cancelled"
            /\ UNCHANGED <<algorithm_type, stage_results, cumulative_depth, stage>>
       ELSE EnterPass("standard")
    /\ UNCHANGED <<platform, shots_per_test, targets, results, circuit,
                   returned, submissions, inflight, advantage, improvement,
                   std_cumulative, ver_cumulative, improvement_factor,
                   target, iterations>>
    /\ UNCHANGED pureVars

\* one turn of the stage loop up to the call of device.run
Submit ==
    /\ pc = "loop"
    /\ stage < Len(targets)
    /\ target' = targets[stage + 1][2]
    /\ iterations' = IF algorithm_type = "standard"
                     THEN IterationCount(algorithm_type, cumulative_depth)
                     ELSE iterations
    /\ circuit' = BuildCircuit(algorithm_type, target', cumulative_depth)
    /\ submissions' = Append(submissions,
                             [alg |-> algorithm_type, stage |-> stage + 1,
                              circuit |-> circuit'])
    /\ inflight' = inflight + 1
    /\ pc' = "inflight"
    /\ UNCHANGED <<platform, shots_per_test, targets, results, algorithm_type,
                   stage, stage_results, cumulative_depth, returned, advantage,
                   improvement, std_cumulative, ver_cumulative,
                   improvement_factor>>
    /\ UNCHANGED pureVars

\* device.run returns the measurements; the rest of the turn of the loop
BackendResult(k) ==
    /\ pc = "inflight"
    /\ shots_per_test > 0
    /\ k \in SuccessCounts(platform, circuit, target, shots_per_test)
    /\ stage_results' = Append(stage_results, Num(k, shots_per_test))
    /\ cumulative_depth' = cumulative_depth + Len(circuit)
    /\ stage' = stage + 1
    /\ inflight' = inflight - 1
    /\ pc' = "loop"
    /\ UNCHANGED <<platform, shots_per_test, targets, results, algorithm_type,
                   circuit, returned, submissions, advantage, improvement,
                   std_cumulative, ver_cumulative, improvement_factor, target,
                   iterations>>
    /\ UNCHANGED pureVars

\* mutant: a failed submission is made again
BackendErrorRetry ==
    /\ pc = "inflight"
    /\ inflight' = inflight - 1
    /\ pc' = "loop"
    /\ UNCHANGED <<platform, shots_per_test, targets, results, algorithm_type,
                   stage, stage_results, cumulative_depth, circuit, returned,
                   submissions, advantage, improvement, std_cumulative,
                   ver_cumulative, improvement_factor, target, iterations>>
    /\ UNCHANGED pureVars

\* device.run raises, or returns no measurement and the division of
\* measure_success_rate raises: nothing catches it
BackendError ==
    /\ pc = "inflight"
    /\ inflight' = inflight - 1
    /\ pc' = "failed"
    /\ UNCHANGED <<platform, shots_per_test, targets, results, algorithm_type,
                   stage, stage_results, cumulative_depth, circuit, returned,
                   submissions, advantage, improvement, std_cumulative,
                   ver_cumulative, improvement_factor, target, iterations>>
    /\ UNCHANGED pureVars

StoreResults ==
    /\ results' = [results EXCEPT ![algorithm_type] =
                      [stages |-> stage_results, total |-> NpProd(stage_results)]]
    /\ returned' = <<stage_results, NpProd(stage_results)>>

\* the end of the 'standard' pass and the entry of the 'vermicular' pass
FinishStandard ==
    /\ pc = "loop"
    /\ stage = Len(targets)
    /\ algorithm_type = "standard"
    /\ StoreResults
    /\ EnterPass("vermicular")
    /\ UNCHANGED <<platform, shots_per_test, targets, circuit, submissions,
                   inflight, advantage, improvement, std_cumulative,
                   ver_cumulative, improvement_factor, target, iterations>>
    /\ UNCHANGED pureVars

\* the end of the 'vermicular' pass
FinishVermicular ==
    /\ pc = "loop"
    /\ stage = Len(targets)
    /\ algorithm_type = "vermicular"
    /\ StoreResults
    /\ pc' = "compare"
    /\ UNCHANGED <<platform, shots_per_test, targets, algorithm_type, stage,
                   stage_results, cumulative_depth, circuit, submissions,
                   inflight, advantage, improvement, std_cumulative,
                   ver_cumulative, improvement_factor, target, iterations>>
    /\ UNCHANGED pureVars

(***************************************************************************)
(* display_final_comparison, create_comparison_plot, save_results          *)
(***************************************************************************)
\* mutant: the guard tests the Augmented value
StageAdvantageGuardVer(ver_rate, std_rate) ==
    IF FGt0(ver_rate) THEN FDiv(ver_rate, std_rate) ELSE Inf

\* ver_rate / std_rate if std_rate > 0 else float('inf')
StageAdvantage(ver_rate, std_rate) ==
    IF FGt0(std_rate) THEN FDiv(ver_rate, std_rate) ELSE Inf

\* vermicular['total'] / standard['total'] if standard['total'] > 0 else inf
TotalImprovement(ver_total, std_total) ==
    IF FGt0(std_total) THEN FDiv(ver_total, std_total) ELSE Inf

\* the improvement_factor of the saved record
ImprovementFactor(ver_total, std_total) ==
    IF FGt0(std_total) THEN FDiv(ver_total, std_total) ELSE None

DisplayFinalComparison ==
    /\ pc = "compare"
    /\ advantage' = [i \in 1..Len(targets) |->
                        StageAdvantage(results["vermicular"].stages[i],
                                       results["standard"].stages[i])]
    /\ improvement' = TotalImprovement(results["vermicular"].total,
                                       results["standard"].total)
    /\ pc' = "plot"
    /\ UNCHANGED <<platform, shots_per_test, targets, results, algorithm_type,
                   stage, stage_results, cumulative_depth, circuit, returned,
                   submissions, inflight, std_cumulative, ver_cumulative,
                   improvement_factor, target, iterations>>
    /\ UNCHANGED pureVars

\* cumulative = [stages[0]]; then cumulative.append(cumulative[-1] * stages[i])
RECURSIVE Cumulative(_, _)
Cumulative(s, n) ==
    IF n = 1 THEN <<s[1]>>
    ELSE LET c == Cumulative(s, n - 1) IN Append(c, FMul(c[n - 1], s[n]))

CreateComparisonPlot ==
    /\ pc = "plot"
    /\ std_cumulative' = Cumulative(results["standard"].stages,
                                    Len(results["standard"].stages))
    /\ ver_cumulative' = Cumulative(results["vermicular"].stages,
                                    Len(results["standard"].stages))
    /\ pc' = "save"
    /\ UNCHANGED <<platform, shots_per_test, targets, results, algorithm_type,
                   stage, stage_results, cumulative_depth, circuit, returned,
                   submissions, inflight, advantage, improvement,
                   improvement_factor, target, iterations>>
    /\ UNCHANGED pureVars

SaveResults ==
    /\ pc = "save"
    /\ improvement_factor' = ImprovementFactor(results["vermicular"].total,
                                               results["standard"].total)
    /\ pc' = "done"
    /\ UNCHANGED <<platform, shots_per_test, targets, results, algorithm_type,
                   stage, stage_results, cumulative_depth, circuit, returned,
                   submissions, inflight, advantage, improvement,
                   std_cumulative, ver_cumulative, target, iterations>>
    /\ UNCHANGED pureVars

(***************************************************************************)
(* The demonstration: QuantumDatabaseDemo(platform).run_complete_demo()    *)
(***************************************************************************)
Platforms == {"simulator", "iqm", "rigetti"}

\* setup_device
ShotsOf(p) == IF p = "simulator" THEN SimShots ELSE QpuShots

Constructed ==
    /\ platform \in Platforms
    /\ results = InitResults
    /\ pc = "start"
    /\ algorithm_type = "none"
    /\ stage = 0
    /\ stage_results = <<>>
    /\ cumulative_depth = 0
    /\ returned = <<>>
    /\ submissions = <<>>
    /\ inflight = 0
    /\ advantage = <<>>
    /\ improvement = <<"unset", 0, 0>>
    /\ std_cumulative = <<>>
    /\ ver_cumulative = <<>>
    /\ improvement_factor = <<"unset", 0, 0>>
    /\ target = <<>>
    /\ iterations = 0
    /\ circuit = <<>>
    /\ amp0 = <<1, 0, 0, 0>>
    /\ amp = <<1, 0, 0, 0>>
    /\ calls = <<>>

Init ==
    /\ Constructed
    /\ shots_per_test = ShotsOf(platform)
    /\ targets = Catalog

Next ==
    \/ \E confirm \in {"yes", "no"} : RunCompleteDemo(confirm)
    \/ Submit
    \/ \E k \in 0..shots_per_test : BackendResult(k)
    \/ BackendError
    \/ FinishStandard
    \/ FinishVermicular
    \/ DisplayFinalComparison
    \/ CreateComparisonPlot
    \/ SaveResults

Spec == Init /\ [][Next]_vars

(***************************************************************************)
(* The same run after the caller has assigned the object's targets or      *)
(* shots_per_test attribute between construction and run_complete_demo.    *)
(***************************************************************************)
BadPatterns == {<<"0">>, <<"1">>, <<"1", "1", "1">>}

CfgCatalogs ==
    {Catalog} \cup
    {[Catalog EXCEPT ![i] = <<Catalog[i][1], p>>] : i \in 1..3, p \in BadPatterns}

InitCfg ==
    /\ Constructed
    /\ shots_per_test \in {ShotsOf(platform), 0, 0 - 1}
    /\ targets \in CfgCatalogs

SpecCfg == InitCfg /\ [][Next]_vars

(***************************************************************************)
(* Properties of the demonstration                                         *)
(***************************************************************************)
RECURSIVE CountCZ(_, _)
CountCZ(c, i) ==
    IF i > Len(c) THEN 0
    ELSE (IF c[i][1] = "cz" THEN 1 ELSE 0) + CountCZ(c, i + 1)

\* iterations of a submitted circuit: every iteration holds two cz, one of
\* the oracle and one of the diffusion
IterationsOf(c) == CountCZ(c, 1) \div 2

\* summed length of the circuits submitted before the i-th one in its pass
RECURSIVE DepthBefore(_, _)
DepthBefore(i, j) ==
    IF j >= i THEN 0
    ELSE (IF submissions[j].alg = submissions[i].alg
          THEN Len(submissions[j].circuit) ELSE 0) + DepthBefore(i, j + 1)

\* C2: a Baseline stage runs 1 iteration when the summed length of the
\* circuits built for the earlier stages of its pass is below 2 and 2
\* iterations otherwise; an Augmented stage always runs 1; the depth counter
\* of a pass counts the circuits of that pass only.
IterationAdaptation ==
    /\ \A i \in 1..Len(submissions) :
          IterationsOf(submissions[i].circuit) =
              IF submissions[i].alg = "standard"
              THEN (IF DepthBefore(i, 1) < 2 THEN 1 ELSE 2)
              ELSE 1
    /\ pc = "inflight" =>
          cumulative_depth = DepthBefore(Len(submissions), 1)

IterationAdaptationWitness ==
    /\ pc = "inflight"
    /\ Len(submissions) = 5
    /\ IterationsOf(submissions[1].circuit) = 1
    /\ IterationsOf(submissions[2].circuit) = 2
    /\ IterationsOf(submissions[3].circuit) = 2
    /\ IterationsOf(submissions[5].circuit) = 1
    /\ cumulative_depth = Len(submissions[4].circuit)
    /\ DepthBefore(4, 1) = 0

\* product of the first k rates of s
RECURSIVE ExactProduct(_, _)
ExactProduct(s, k) ==
    IF k = 0 THEN One
    ELSE LET q == ExactProduct(s, k - 1)
         IN  Num(q[2] * s[k][2], q[3] * s[k][3])

NonIncreasing(s) ==
    \A k \in 1..Len(s) : FLeq(ExactProduct(s, k), ExactProduct(s, k - 1))

\* C4: the total a pass stores and returns is the product of the stage rates
\* it stores and returns, and the running product of the rates recorded so
\* far does not increase from one stage to the next.
TotalIsProduct ==
    /\ \A a \in {"standard", "vermicular"} :
          results[a].stages # <<>> =>
              /\ FEq(results[a].total,
                     ExactProduct(results[a].stages, Len(results[a].stages)))
              /\ NonIncreasing(results[a].stages)
    /\ returned # <<>> =>
          FEq(returned[2], ExactProduct(returned[1], Len(returned[1])))
    /\ pc = "compare" => returned = <<results["vermicular"].stages,
                                      results["vermicular"].total>>
    /\ NonIncreasing(stage_results)

TotalIsProductWitness ==
    /\ pc = "compare"
    /\ results["standard"].stages = <<Num(2, 2), Num(1, 2), Num(1, 2)>>
    /\ results["standard"].total = Num(2, 8)
    /\ results["vermicular"].stages = <<Num(1, 2), Num(2, 2), Num(0, 2)>>
    /\ FEq(results["vermicular"].total, Num(0, 1))

IsQuotient(r, a, b) ==
    /\ r[1] = "num"
    /\ b[2] # 0
    /\ r[2] * a[3] * b[2] = a[2] * b[3] * r[3]

\* C5: each of the ratios is the quotient when the Baseline value is above
\* zero and the sentinel when it is zero, whatever the Augmented value, and
\* none of them is a division by zero.
RatioOrSentinel ==
    LET std == results["standard"]
        ver == results["vermicular"]
    IN  /\ pc \in {"plot", "save", "done"} =>
              /\ \A i \in 1..Len(targets) :
                     /\ advantage[i] # ZeroDivisionError
                     /\ std.stages[i][2] = 0 => advantage[i] = Inf
                     /\ std.stages[i][2] > 0 =>
                            IsQuotient(advantage[i], ver.stages[i], std.stages[i])
              /\ improvement # ZeroDivisionError
              /\ std.total[2] = 0 => improvement = Inf
              /\ std.total[2] > 0 => IsQuotient(improvement, ver.total, std.total)
        /\ pc = "done" =>
              /\ improvement_factor # ZeroDivisionError
              /\ std.total[2] = 0 => improvement_factor = None
              /\ std.total[2] > 0 =>
                     IsQuotient(improvement_factor, ver.total, std.total)

RatioOrSentinelWitness ==
    /\ pc = "done"
    /\ results["standard"].stages[1][2] = 0
    /\ results["vermicular"].stages[1][2] = 0
    /\ results["standard"].stages[2][2] = 0
    /\ results["vermicular"].stages[2][2] > 0
    /\ results["standard"].stages[3][2] > 0
    /\ advantage[1] = Inf
    /\ advantage[2] = Inf
    /\ advantage[3][1] = "num"
    /\ improvement = Inf
    /\ improvement_factor = None

IsOne(r) == r[1] = "num" /\ r[2] = r[3]

\* C6 as stated: on the noiseless simulator every stage of both passes has
\* rate 1.0, both totals are 1.0 and every ratio is 1.0.
AllRatesOne ==
    (pc = "done" /\ platform = "simulator") =>
        /\ \A a \in {"standard", "vermicular"} :
              /\ \A i \in 1..3 : IsOne(results[a].stages[i])
              /\ IsOne(results[a].total)
        /\ \A i \in 1..3 : IsOne(advantage[i])
        /\ IsOne(improvement)

\* probability, as <<hit, all>>, that the simulator measures pattern t
IdealHit(c, t) ==
    LET a == RunCircuit(<<1, 0, 0, 0>>, c)
    IN  <<At(a, IndexOf(t)) * At(a, IndexOf(t)), SumSq(a)>>

AtLeastOneOrInf(r) == r = Inf \/ (r[1] = "num" /\ r[2] >= r[3] /\ r[3] > 0)

\* C6 amended: on the noiseless simulator the rate is 1.0 at Baseline stage 1
\* and at every Augmented stage, and the Augmented total is 1.0.  Baseline
\* stages 2 and 3 run 2 iterations, which find the target with probability
\* 1/4, so the Baseline total is the product of these two rates, the ratio
\* is 1.0 at stage 1 and, at stages 2, 3 and overall, at least 1.0 or the
\* sentinel.
SimulatorScenario ==
    (pc = "done" /\ platform = "simulator") =>
        /\ IsOne(results["standard"].stages[1])
        /\ \A i \in 1..3 : IsOne(results["vermicular"].stages[i])
        /\ IsOne(results["vermicular"].total)
        /\ \A i \in {1, 4, 5, 6} :
              LET h == IdealHit(submissions[i].circuit, targets[((i - 1) % 3) + 1][2])
              IN  IterationsOf(submissions[i].circuit) = 1 /\ h[1] = h[2]
        /\ \A i \in {2, 3} :
              LET h == IdealHit(submissions[i].circuit, targets[i][2])
              IN  IterationsOf(submissions[i].circuit) = 2 /\ 4 * h[1] = h[2]
        /\ FEq(results["standard"].total,
               FMul(results["standard"].stages[2], results["standard"].stages[3]))
        /\ IsOne(advantage[1])
        /\ \A i \in {2, 3} : AtLeastOneOrInf(advantage[i])
        /\ AtLeastOneOrInf(improvement)

SimulatorScenarioWitness ==
    /\ pc = "done"
    /\ platform = "simulator"
    /\ targets = Catalog
    /\ results["standard"].stages = <<Num(3, 3), Num(1, 3), Num(0, 3)>>
    /\ results["vermicular"].stages = <<Num(3, 3), Num(3, 3), Num(3, 3)>>
    /\ advantage[2] = Num(9, 3)
    /\ advantage[3] = Inf
    /\ improvement = Inf

\* C7 as stated: no device.run call is made for a stage whose pattern does
\* not have one character per unit (two), or with a shot count that is not
\* positive.
ConfigErrorRejected ==
    \A i \in 1..Len(submissions) :
        /\ Len(targets[submissions[i].stage][2]) = 2
        /\ shots_per_test > 0

ExpectedOrder ==
    << <<"standard", 1>>, <<"standard", 2>>, <<"standard", 3>>,
       <<"vermicular", 1>>, <<"vermicular", 2>>, <<"vermicular", 3>> >>

PassOffset(a) == IF a = "standard" THEN 0 ELSE 3

SequentialState ==
    /\ Len(submissions) <= 6
    /\ \A i \in 1..Len(submissions) :
          /\ <<submissions[i].alg, submissions[i].stage>> = ExpectedOrder[i]
          /\ LET t == targets[submissions[i].stage][2]
             IN  submissions[i].circuit \in
                     {create_standard_grover(t, 1), create_standard_grover(t, 2),
                      create_vermicular(t, 1)}
    /\ inflight \in {0, 1}
    /\ inflight = 1 <=> pc = "inflight"
    /\ Len(submissions) > 3 => Len(results["standard"].stages) = 3
    /\ pc \in {"loop", "inflight", "failed"} =>
          Len(submissions) = PassOffset(algorithm_type) + stage + inflight
                               + (IF pc = "failed" THEN 1 ELSE 0)
    /\ pc = "failed" => results[algorithm_type] = InitResults[algorithm_type]

\* C10: the device.run calls of a run are a prefix of Baseline stages 1, 2,
\* 3, then Augmented stages 1, 2, 3, each with the circuit built for its
\* stage; at most one is in flight; no Augmented call precedes the end of
\* the Baseline pass; after a failed call no call is made, and the failed
\* pass stores no result.
SequentialSubmissions ==
    /\ []SequentialState
    /\ [][pc = "failed" => (pc' = "failed" /\ submissions' = submissions)]_vars

SequentialSubmissionsWitness ==
    /\ pc = "failed"
    /\ algorithm_type = "vermicular"
    /\ stage = 1
    /\ Len(submissions) = 5
    /\ Len(results["standard"].stages) = 3
    /\ results["vermicular"].stages = <<>>

====
